---- MODULE Spec2Model ----
(***************************************************************************)
(* The "mysql" processor of go-guerrilla (backends/p_mysql.go): a          *)
(* decorator of the backend pipeline that saves an envelope as one row per *)
(* recipient, with a cache of prepared INSERT statements indexed by the    *)
(* number of rows, and that validates the last recipient added.            *)
(*                                                                         *)
(* Sessions call the processor concurrently.  Every access to the state    *)
(* shared by the sessions (the statement cache, the values vals of the     *)
(* row, the store) is a step of its own, so that the interleavings of the  *)
(* unsynchronised code are the behaviours of the model.  The initializer   *)
(* opens the handle of the store before the first call and the shutdowner  *)
(* closes it when no session is in a call.                                 *)
(***************************************************************************)
EXTENDS Integers, Sequences, FiniteSets, TLC

\* ---- bounds -------------------------------------------------------------
NumSessions == 2      \* sessions calling the processor concurrently
MaxRows     == 2      \* batch sizes 0..MaxRows are passed to prepareInsertQuery
MaxRcpt     == 2      \* recipients of an envelope
RowCalls    == 2      \* calls of the session that saves the envelopes of the rows
MaxCalls    == 3      \* calls a session makes when it runs alone

\* ---- program constants --------------------------------------------------
UserLimit == 255      \* len(last.User) > 255

Sessions == 1..NumSessions
Nil      == 0         \* a nil *sql.Stmt; compiled statements are 1, 2, ...

\* ---- strings -------------------------------------------------------------
\* A string is a sequence of runs: the run [c |-> "a", n |-> 3] is "aaa".
Str(c, n) == IF n = 0 THEN <<>> ELSE <<[c |-> c, n |-> n]>>

\* len(str)
RECURSIVE StrLen(_)
StrLen(str) == IF str = <<>> THEN 0 ELSE str[1].n + StrLen(Tail(str))

\* a + b; the runs of the same character at the seam become one run
Cat(a, b) ==
    IF a = <<>> THEN b
    ELSE IF b = <<>> THEN a
    ELSE IF a[Len(a)].c = b[1].c
    THEN SubSeq(a, 1, Len(a) - 1)
             \o <<[c |-> b[1].c, n |-> a[Len(a)].n + b[1].n]>>
             \o Tail(b)
    ELSE a \o b

\* str[:n], for n <= len(str)
RECURSIVE Take(_, _)
Take(str, n) ==
    IF n = 0 \/ str = <<>> THEN <<>>
    ELSE IF str[1].n >= n THEN <<[c |-> str[1].c, n |-> n]>>
    ELSE <<str[1]>> \o Take(Tail(str), n - str[1].n)

\* strings.TrimSpace(str): a string has one run of spaces at most at each end
TrimSpace(str) ==
    LET a == IF str # <<>> /\ str[1].c = " " THEN Tail(str) ELSE str
    IN  IF a # <<>> /\ a[Len(a)].c = " " THEN SubSeq(a, 1, Len(a) - 1) ELSE a

\* ---- tasks, results -----------------------------------------------------
TaskSaveMail     == "TaskSaveMail"
TaskValidateRcpt == "TaskValidateRcpt"
TaskTest         == "TaskTest"
TaskSaveMailStream == "TaskSaveMailStream"
Tasks            == {TaskSaveMail, TaskValidateRcpt, TaskTest, TaskSaveMailStream}

NewResult(text) == text
SaveFailed   == [result |-> NewResult("554 Error: could not save email"), err |-> "StorageError"]
RcptFailed   == [result |-> NewResult("response.Canned.FailRcptCmd"), err |-> "NoSuchUser"]
\* what the next processor of the chain may answer
NextResults  == {[result |-> NewResult("250 OK"), err |-> "nil"],
                 [result |-> NewResult("451 downstream"), err |-> "downstream"]}
NoResult     == [result |-> "", err |-> ""]

\* ---- envelopes ----------------------------------------------------------
Users     == {Str("u", 1), Str("v", UserLimit), Str("w", UserLimit + 1)}
RcptHost  == Str("x", 11)
Rcpts     == {[User |-> u, Host |-> RcptHost] : u \in Users}
RcptLists == UNION {[1..n -> Rcpts] : n \in 0..MaxRcpt}
Hash1     == Str("1", 32)
Hash2     == Str("2", 32)
HashLists == {<<>>, <<Hash1>>, <<Hash1, Hash2>>}
InitialQueuedId == Str("q", 2)
\* an address text is a sequence of characters
IPv4Text  == <<"1", "9", "2", ".", "1", "6", "8", ".", "1", ".", "1">>
\* an envelope with no header, no recipient and nothing left by the
\* processors before this one
PlainEnvelope ==
    [RcptTo         |-> <<>>,
     Hashes         |-> <<>>,
     QueuedId       |-> InitialQueuedId,
     Header         |-> <<>>,
     MailFrom       |-> [User |-> Str("s", 6), Host |-> Str("y", 9)],
     Subject        |-> Str("j", 7),
     Values         |-> <<>>,
     RemoteIP       |-> IPv4Text,
     TLS            |-> FALSE,
     DeliveryHeader |-> Str("d", 20),
     Data           |-> Str("m", 40)]
Envelopes == {[PlainEnvelope EXCEPT !.RcptTo = r, !.Hashes = h] :
                 r \in RcptLists, h \in HashLists}
NoEnvelope == [PlainEnvelope EXCEPT !.QueuedId = <<>>]
\* the envelopes of sessions that run concurrently: one recipient at most
SmallEnvelopes == {e \in Envelopes : Len(e.RcptTo) <= 1}

\* ---- the envelopes whose rows are looked at ------------------------------
Angle(str)   == Cat(Cat(Str("<", 1), str), Str(">", 1))
At(user, host) == Cat(Cat(user, Str("@", 1)), host)

ToHeader        == Angle(At(Str("t", 4), Str("h", 5)))     \* <tttt@hhhhh>
BadHeader       == Str("z", 6)                              \* no address
MessageIdHeader == Angle(At(Str("i", 8), Str("h", 5)))
LongHeader      == Angle(At(Str("i", 300), Str("h", 5)))    \* longer than a field
ReplyToHeader   == At(Str("r", 5), Str("h", 5))
SenderHeader    == Angle(At(Str("n", 6), Str("h", 5)))
ContentType     == Str("c", 10)

Headers ==
    { <<>>,
      "To" :> <<ToHeader>>,
      "To" :> <<BadHeader>>,
      "To" :> <<LongHeader>>,
      "Message-Id" :> <<MessageIdHeader>>,
      "Message-Id" :> <<BadHeader>>,
      "Message-Id" :> <<LongHeader>>,
      ("To" :> <<ToHeader>>) @@ ("Message-Id" :> <<MessageIdHeader>>),
      ("Reply-To" :> <<ReplyToHeader>>) @@ ("Sender" :> <<SenderHeader>>)
          @@ ("Content-Type" :> <<ContentType, BadHeader>>) }

\* the compressor an earlier processor of the pipeline left for this envelope
TheCompressor == [extraHeaders |-> PlainEnvelope.DeliveryHeader,
                  data |-> PlainEnvelope.Data, set |-> TRUE]
RedisKey == Str("k", 3)
ValueMaps ==
    { <<>>,
      "zlib-compressor" :> TheCompressor,
      "redis" :> RedisKey,
      ("zlib-compressor" :> TheCompressor) @@ ("redis" :> RedisKey) }

IPTexts ==
    { IPv4Text,
      <<"0", ".", "0", ".", "0", ".", "7">>,
      <<":", ":", "1">>,
      <<"f", "e", "8", "0", ":", ":", "1">>,
      <<"2", "0", "0", "1", ":", "d", "b", "8", ":", "0", ":", "0", ":",
        "0", ":", "0", ":", "0", ":", "1">>,
      <<"n", "o">> }

RcptA    == [User |-> Str("u", 1), Host |-> RcptHost]
RcptB    == [User |-> Str("b", 3), Host |-> RcptHost]
RcptLong == [User |-> Str("v", UserLimit), Host |-> RcptHost]

BaseEnvelope == [PlainEnvelope EXCEPT !.RcptTo = <<RcptA, RcptB>>, !.Hashes = <<Hash1>>]

\* the base envelope with one of its parts replaced
RowEnvelopes ==
    {[BaseEnvelope EXCEPT !.Header = h] : h \in Headers}
    \cup {[BaseEnvelope EXCEPT !.Values = v] : v \in ValueMaps}
    \cup {[BaseEnvelope EXCEPT !.RemoteIP = t] : t \in IPTexts}
    \cup {[BaseEnvelope EXCEPT !.RcptTo = r] : r \in {<<RcptLong>>, <<RcptB, RcptLong>>}}
    \cup {[BaseEnvelope EXCEPT !.Hashes = <<>>], [BaseEnvelope EXCEPT !.TLS = TRUE]}

VARIABLES
    active,     \* the sessions that run
    envs,       \* the name of the set of envelopes the sessions are given
    calls,      \* the calls the sessions may still make
    cache,      \* MysqlProcessor.cache: cache[rows] is cache[rows-1] of the code
    prepared,   \* the store: prepared[id] is the SQL text of statement id
    contacts,   \* the store: the rows argument of every db.Prepare received
    vals,       \* the variable vals of MySql(), which every Process call shares
    db,         \* the variable db of MySql(): the handle the initializer stored
    handles,    \* the store: handles[h] is the state of the handle sql.Open gave
    initRet,    \* what the initializer returned
    shutRet,    \* what the shutdowner returned
    prev,       \* per session: the rows its previous run over this envelope bound
    pc,         \* per session: position in the code
    entry,      \* per session: the function the session called
    stack,      \* per session: the frames of the call in progress
    task,       \* per session: the task of the Process call
    env,        \* per session: the envelope of the Process call
    idx,        \* per session: i of "for i := range e.RcptTo"
    hash,       \* per session: the local hash of the save task
    rows,       \* per session: the rows argument of prepareInsertQuery
    stmt,       \* per session: the statement prepareInsertQuery holds or returned
    inserts,    \* per session: the Exec calls of this call, in order
    forwards,   \* per session: the p.Process calls of this call, in order
    exit,       \* per session: how the top-level call ended
    ret,        \* per session: the (Result, error) the call returned
    fault       \* per session: the panic that left the call

\* the envelopes the sessions are given
Given ==
    CASE envs = "small" -> SmallEnvelopes
      [] envs = "all"   -> Envelopes
      [] envs = "rows"  -> RowEnvelopes

vars == <<active, envs, calls, cache, prepared, contacts, vals, db, handles, initRet, shutRet, prev, pc, entry, stack, task,
          env, idx, hash, rows, stmt, inserts, forwards, exit, ret, fault>>

shared == <<cache, prepared, contacts, vals>>
life   == <<db, handles, initRet, shutRet>>
local  == <<task, env, idx, hash, rows, stmt>>

NoFault == [value |-> "", past |-> {}]

\* ---- the statement text, lines 97-110 -----------------------------------
Columns == <<"date", "to", "from", "subject", "body", "mail", "spam_score",
             "hash", "content_type", "recipient", "has_attach", "ip_addr",
             "return_path", "is_tls", "message_id", "reply_to", "sender">>
\* values := "(NOW(), ?, ?, ?, ? , ?, 0, ?, ?, ?, 0, ?, ?, ?, ?, ?, ?)"
ValuesTuple == <<"(", "NOW()", "?", "?", "?", "?", "?", "0", "?", "?", "?", "0",
                 "?", "?", "?", "?", "?", "?", ")">>

\* for i := 0; i < rows; i++ { sqlstr += comma + values; comma = "," }
RECURSIVE AddRows(_, _, _, _)
AddRows(sqlstr, comma, i, n) ==
    IF i < n THEN AddRows(sqlstr \o comma \o ValuesTuple, <<",">>, i + 1, n)
    ELSE sqlstr

InsertSql(n) ==
    [table |-> "MysqlTable", columns |-> Columns, values |-> AddRows(<<>>, <<>>, 0, n)]

\* ---- the fields of a row, lines 155-164 and 210-242 -----------------------
FieldLimit  == 255                \* trimToLimit(..., 255)
PrimaryHost == Str("p", 12)       \* config.PrimaryHost

\* trimToLimit(str, limit): str when it has limit characters at most, else its
\* first limit characters
trimToLimit(str, limit) ==
    IF StrLen(str) > limit THEN Take(str, limit) ELSE str

\* mail.Address.String(): User@Host
AddressString(a) ==
    Cat(Cat(a.User, Str("@", 1)), a.Host)

\* mail.NewAddress(text): text is local@domain, in angle brackets or not;
\* anything else is an error
NewAddress(text) ==
    LET bare == IF Len(text) >= 2 /\ text[1] = [c |-> "<", n |-> 1]
                                 /\ text[Len(text)] = [c |-> ">", n |-> 1]
                THEN SubSeq(text, 2, Len(text) - 1) ELSE text
        ats  == {k \in 1..Len(bare) : bare[k].c = "@"}
        odd  == {k \in 1..Len(bare) : bare[k].c \in {" ", "<", ">"}}
    IN  IF Cardinality(ats) = 1 /\ odd = {}
        THEN LET k == CHOOSE j \in ats : TRUE
             IN  IF bare[k].n = 1 /\ 1 < k /\ k < Len(bare)
                 THEN [err |-> FALSE,
                       addr |-> [User |-> SubSeq(bare, 1, k - 1),
                                 Host |-> SubSeq(bare, k + 1, Len(bare))]]
                 ELSE [err |-> TRUE, addr |-> [User |-> <<>>, Host |-> <<>>]]
        ELSE [err |-> TRUE, addr |-> [User |-> <<>>, Host |-> <<>>]]

\* lines 155-164
fillAddressFromHeader(e, headerKey) ==
    IF headerKey \in DOMAIN e.Header
    THEN LET r == NewAddress(e.Header[headerKey][1])
         IN  IF r.err THEN <<>> ELSE AddressString(r.addr)
    ELSE <<>>

\* lines 224-228
ToField(e, i) ==
    LET to == trimToLimit(fillAddressFromHeader(e, "To"), FieldLimit)
    IN  IF to = <<>>
        THEN trimToLimit(TrimSpace(AddressString(e.RcptTo[i])), FieldLimit)
        ELSE to

\* fmt.Sprintf("%s.%s@%s", hash, e.RcptTo[i].User, config.PrimaryHost)
SynthMessageId(h, user) ==
    Cat(Cat(Cat(Cat(h, Str(".", 1)), user), Str("@", 1)), PrimaryHost)

\* lines 229-232
MessageIdField(e, i, h) ==
    LET mid == trimToLimit(fillAddressFromHeader(e, "Message-Id"), FieldLimit)
    IN  IF mid = <<>> THEN SynthMessageId(h, e.RcptTo[i].User) ELSE mid

\* lines 234 and 236
ReplyToField(e) == trimToLimit(fillAddressFromHeader(e, "Reply-To"), FieldLimit)
SenderField(e)  == trimToLimit(fillAddressFromHeader(e, "Sender"), FieldLimit)

\* a recipient column that holds the first recipient in every row
RecipientField_First(e, i) ==
    trimToLimit(TrimSpace(AddressString(e.RcptTo[1])), FieldLimit)

\* line 238
RecipientField(e, i) ==
    trimToLimit(TrimSpace(AddressString(e.RcptTo[i])), FieldLimit)

\* lines 239-242
ContentTypeField(e) ==
    IF "Content-Type" \in DOMAIN e.Header
    THEN trimToLimit(e.Header["Content-Type"][1], FieldLimit)
    ELSE <<>>

\* the two checks in the other order: the compressor wins over the marker
BodyMode_GzipWins(e) ==
    LET rd == IF "redis" \in DOMAIN e.Values THEN "redis" ELSE ""
    IN  IF "zlib-compressor" \in DOMAIN e.Values THEN "gzip" ELSE rd

\* lines 210-219: body and co
BodyMode(e) ==
    LET gz == IF "zlib-compressor" \in DOMAIN e.Values THEN "gzip" ELSE ""
    IN  IF "redis" \in DOMAIN e.Values THEN "redis" ELSE gz

NoCompressor == [extraHeaders |-> <<>>, data |-> <<>>, set |-> FALSE]
Compressor(e) ==
    IF "zlib-compressor" \in DOMAIN e.Values
    THEN e.Values["zlib-compressor"] ELSE NoCompressor

\* compressor.String(): the compressed form of the delivery header and the data
Zip(str) == <<[c |-> "zlib", n |-> 1]>> \o str
CompressorString(co) == Zip(Cat(co.extraHeaders, co.data))

\* mail.Envelope.String(): the delivery header and the data
EnvelopeString(e) == Cat(e.DeliveryHeader, e.Data)

\* lines 252-262: the `mail` column
MailField(e, body, co) ==
    IF body = "redis" THEN <<>>
    ELSE IF co # NoCompressor THEN CompressorString(co)
    ELSE EnvelopeString(e)

\* ---- ip2bint, lines 144-153 -----------------------------------------------
\* the value of a digit; 16 for any other character
DigitVal(ch) ==
    CASE ch = "0" -> 0  [] ch = "1" -> 1  [] ch = "2" -> 2  [] ch = "3" -> 3
      [] ch = "4" -> 4  [] ch = "5" -> 5  [] ch = "6" -> 6  [] ch = "7" -> 7
      [] ch = "8" -> 8  [] ch = "9" -> 9  [] ch = "a" -> 10 [] ch = "b" -> 11
      [] ch = "c" -> 12 [] ch = "d" -> 13 [] ch = "e" -> 14 [] ch = "f" -> 15
      [] OTHER -> 16

\* the number the digits of txt write in the given base; -1 when txt is empty,
\* has a character that is no digit of the base, or has more than max digits
RECURSIVE Number(_, _, _)
Number(txt, base, acc) ==
    IF txt = <<>> THEN acc
    ELSE IF DigitVal(txt[1]) >= base THEN -1
    ELSE Number(Tail(txt), base, acc * base + DigitVal(txt[1]))

ParseNumber(txt, base, max) ==
    IF txt = <<>> \/ Len(txt) > max THEN -1 ELSE Number(txt, base, 0)

\* the parts of txt between the separators
RECURSIVE Split(_, _, _)
Split(txt, sep, part) ==
    IF txt = <<>> THEN <<part>>
    ELSE IF txt[1] = sep THEN <<part>> \o Split(Tail(txt), sep, <<>>)
    ELSE Split(Tail(txt), sep, Append(part, txt[1]))

\* line 147: strings.Index(txt, "::"), positions counted from 0; -1 when there is none
IndexColons(txt) ==
    LET at == {k \in 1..(Len(txt) - 1) : txt[k] = ":" /\ txt[k + 1] = ":"}
    IN  IF at = {} THEN -1 ELSE (CHOOSE k \in at : \A j \in at : k <= j) - 1

NilIP == <<>>

\* a dotted quad as 16 bytes, the form net.ParseIP gives an IPv4 address
ParseIPv4(txt) ==
    LET parts == Split(txt, ".", <<>>)
        nums  == [k \in 1..Len(parts) |-> ParseNumber(parts[k], 10, 3)]
    IN  IF Len(parts) = 4 /\ \A k \in 1..4 : nums[k] \in 0..255
        THEN <<0, 0, 0, 0, 0, 0, 0, 0, 0, 0, 255, 255>> \o nums
        ELSE NilIP

\* the groups of a colon-separated text; <<>> for the empty text
Groups(txt) ==
    IF txt = <<>> THEN <<>>
    ELSE LET parts == Split(txt, ":", <<>>)
         IN  [k \in 1..Len(parts) |-> ParseNumber(parts[k], 16, 4)]

RECURSIVE GroupBytes(_)
GroupBytes(gs) ==
    IF gs = <<>> THEN <<>>
    ELSE <<gs[1] \div 256, gs[1] % 256>> \o GroupBytes(Tail(gs))

\* groups of hexadecimal digits, with one "::" at most for a run of zero groups
ParseIPv6(txt) ==
    LET at == IndexColons(txt)
    IN  IF at = -1
        THEN LET gs == Groups(txt)
             IN  IF Len(gs) = 8 /\ \A k \in 1..8 : gs[k] >= 0
                 THEN GroupBytes(gs) ELSE NilIP
        ELSE LET left  == Groups(SubSeq(txt, 1, at))
                 right == Groups(SubSeq(txt, at + 3, Len(txt)))
                 gap   == 8 - Len(left) - Len(right)
             IN  IF /\ gap >= 1
                    /\ \A k \in 1..Len(left) : left[k] >= 0
                    /\ \A k \in 1..Len(right) : right[k] >= 0
                 THEN GroupBytes(left \o [k \in 1..gap |-> 0] \o right)
                 ELSE NilIP

\* net.ParseIP(txt): the 16 bytes of the address, nil when txt is no address
ParseIP(txt) ==
    IF \E k \in 1..Len(txt) : txt[k] = "." THEN ParseIPv4(txt)
    ELSE IF \E k \in 1..Len(txt) : txt[k] = ":" THEN ParseIPv6(txt)
    ELSE NilIP

\* IP.To4(): the 4 bytes of an IPv4 address, nil for any other
To4(ip) ==
    IF Len(ip) = 16 /\ SubSeq(ip, 1, 12) = <<0, 0, 0, 0, 0, 0, 0, 0, 0, 0, 255, 255>>
    THEN SubSeq(ip, 13, 16) ELSE NilIP

\* IP.To16()
To16(ip) ==
    IF Len(ip) = 16 THEN ip ELSE NilIP

\* big.Int.SetBytes(b).Bytes(): b without its leading zero bytes
RECURSIVE BigIntBytes(_)
BigIntBytes(b) ==
    IF b # <<>> /\ b[1] = 0 THEN BigIntBytes(Tail(b)) ELSE b

\* lines 144-153, and .Bytes() of line 268
ip2bint(ip) ==
    LET addr == ParseIP(ip)
    IN  IF IndexColons(ip) > 0 THEN BigIntBytes(To16(addr))
                              ELSE BigIntBytes(To4(addr))

\* ---- the values of a row, lines 245-274 ----------------------------------
\* a row that is appended to the values of the row before it
ClearVals_Keeps(v) ==
    v

\* line 245: vals = []interface{}{}
ClearVals(v) ==
    <<>>

\* a row without its body column
HeadValues_NoBody(e, i) ==
    <<ToField(e, i),
      trimToLimit(AddressString(e.MailFrom), FieldLimit),
      trimToLimit(e.Subject, FieldLimit)>>

\* lines 246-251
HeadValues(e, i) ==
    <<ToField(e, i),
      trimToLimit(AddressString(e.MailFrom), FieldLimit),
      trimToLimit(e.Subject, FieldLimit),
      BodyMode(e)>>

\* lines 264-274
TailValues(e, i, h) ==
    <<h,
      ContentTypeField(e),
      RecipientField(e, i),
      ip2bint(e.RemoteIP),
      trimToLimit(AddressString(e.MailFrom), FieldLimit),
      e.TLS,
      MessageIdField(e, i, h),
      ReplyToField(e),
      SenderField(e)>>

\* ---- panics -------------------------------------------------------------
\* What the deferred function of a frame does with a panic r that reaches it.
\* doQuery (lines 121-133) recovers, logs and panics again; the other
\* functions defer nothing.
Deferred(frame, r) ==
    IF frame = "doQuery" THEN "query failed" ELSE r

\* a panic r raised in the top frame of stk leaves every frame of stk
RECURSIVE Unwind(_, _, _)
Unwind(stk, r, past) ==
    IF stk = <<>> THEN [value |-> r, past |-> past]
    ELSE LET top == stk[Len(stk)]
         IN  Unwind(SubSeq(stk, 1, Len(stk) - 1), Deferred(top, r), past \cup {top})

Panic(s, r) ==
    /\ fault' = [fault EXCEPT ![s] = Unwind(stack[s], r, {})]
    /\ exit'  = [exit EXCEPT ![s] = "panic"]
    /\ pc'    = [pc EXCEPT ![s] = "done"]
    /\ stack' = [stack EXCEPT ![s] = <<>>]
    /\ ret'   = [ret EXCEPT ![s] = NoResult]

Return(s, r) ==
    /\ ret'   = [ret EXCEPT ![s] = r]
    /\ exit'  = [exit EXCEPT ![s] = "returned"]
    /\ pc'    = [pc EXCEPT ![s] = "done"]
    /\ stack' = [stack EXCEPT ![s] = <<>>]
    /\ fault' = [fault EXCEPT ![s] = NoFault]

\* ---- Init ---------------------------------------------------------------
InitCommon ==
    /\ cache    = [n \in 1..MaxRows |-> Nil]
    /\ prepared = <<>>
    /\ contacts = [n \in 1..MaxRows |-> 0]
    /\ pc       = [s \in Sessions |-> "idle"]
    /\ entry    = [s \in Sessions |-> "none"]
    /\ stack    = [s \in Sessions |-> <<>>]
    /\ task     = [s \in Sessions |-> TaskTest]
    /\ env      = [s \in Sessions |-> NoEnvelope]
    /\ idx      = [s \in Sessions |-> 0]
    /\ hash     = [s \in Sessions |-> <<>>]
    /\ rows     = [s \in Sessions |-> 0]
    /\ stmt     = [s \in Sessions |-> Nil]
    /\ inserts  = [s \in Sessions |-> <<>>]
    /\ forwards = [s \in Sessions |-> <<>>]
    /\ exit     = [s \in Sessions |-> "none"]
    /\ ret      = [s \in Sessions |-> NoResult]
    /\ fault    = [s \in Sessions |-> NoFault]
    /\ vals     = <<>>
    /\ db       = Nil
    /\ handles  = <<>>
    /\ initRet  = "none"
    /\ shutRet  = "none"
    /\ prev     = [s \in Sessions |-> <<>>]

\* every session runs; the sessions make NumSessions calls between them
Init ==
    /\ InitCommon
    /\ active = Sessions
    /\ envs   = "small"
    /\ calls  = NumSessions

\* one session runs and makes its calls one after the other
InitSeq ==
    /\ InitCommon
    /\ active = {1}
    /\ envs   = "all"
    /\ calls  = MaxCalls

\* one session saves envelopes that differ in one part each
InitRow ==
    /\ InitCommon
    /\ active = {1}
    /\ envs   = "rows"
    /\ calls  = RowCalls

\* ---- the initializer and the shutdowner, lines 62-87 and 174-195 ---------
InitOutcomes == {"nil", "config error", "open error", "probe error"}

\* line 83: return nil, err
FailedProbe(h) ==
    Nil

\* lines 62-87: connect with the handles hs opened so far; out is what the
\* store does: sql.Open fails, the probe of the table fails, or neither
connect(hs, out) ==
    IF out = "open error"
    THEN [handles |-> hs, db |-> Nil, err |-> out]
    ELSE IF out = "probe error"
    THEN [handles |-> Append(hs, "open"), db |-> FailedProbe(Len(hs) + 1), err |-> out]
    ELSE [handles |-> Append(hs, "open"), db |-> Len(hs) + 1, err |-> "nil"]

\* lines 174-187
Initialize ==
    /\ initRet = "none"
    /\ shutRet = "none"
    /\ \E out \in InitOutcomes :
          IF out = "config error"
          THEN /\ initRet' = out
               /\ UNCHANGED <<db, handles>>
          ELSE LET c == connect(handles, out)
               IN  /\ db'      = c.db
                   /\ handles' = c.handles
                   /\ initRet' = c.err
    /\ UNCHANGED <<shutRet, active, envs, calls, shared, prev, pc, entry, stack, task, env, idx,
                   hash, rows, stmt, inserts, forwards, exit, ret, fault>>

\* a shutdowner that never closes
HasHandle_Never(d) ==
    FALSE

\* line 191: db != nil
HasHandle(d) ==
    d # Nil

CloseOutcomes == {"nil", "close error"}

\* lines 190-195; the host runs it when no session is in a call
Shutdown ==
    /\ shutRet = "none"
    /\ \A s \in Sessions : pc[s] = "idle"
    /\ IF HasHandle(db)
       THEN /\ handles' = [handles EXCEPT ![db] = "closed"]
            /\ \E r \in CloseOutcomes : shutRet' = r
       ELSE /\ shutRet' = "nil"
            /\ UNCHANGED handles
    /\ UNCHANGED <<db, initRet, active, envs, calls, shared, prev, pc, entry, stack, task, env,
                   idx, hash, rows, stmt, inserts, forwards, exit, ret, fault>>

\* ---- a session makes a call ---------------------------------------------
\* the initializer has returned nil and the shutdowner has not run
Serving ==
    /\ initRet = "nil"
    /\ shutRet = "none"

CanCall(s) ==
    /\ Serving
    /\ s \in active
    /\ pc[s] = "idle"
    /\ calls > 0

Begin(s, f) ==
    /\ calls'    = calls - 1
    /\ entry'    = [entry EXCEPT ![s] = f]
    /\ inserts'  = [inserts EXCEPT ![s] = <<>>]
    /\ stmt'     = [stmt EXCEPT ![s] = Nil]
    /\ UNCHANGED <<life, prev, active, envs, shared>>

\* return p.Process(e, task); before are the calls of p.Process made so far
Forward(s, before, e, t) ==
    /\ \E r \in NextResults :
          /\ forwards' = [forwards EXCEPT ![s] =
                             Append(before, [env |-> e, task |-> t, answer |-> r])]
          /\ ret' = [ret EXCEPT ![s] = r]
    /\ exit'  = [exit EXCEPT ![s] = "next"]
    /\ pc'    = [pc EXCEPT ![s] = "done"]
    /\ stack' = [stack EXCEPT ![s] = <<>>]
    /\ fault' = [fault EXCEPT ![s] = NoFault]

\* a dispatch that takes a second task for the save task
Branch_StreamSaves(t) ==
    IF t \in {TaskSaveMail, TaskSaveMailStream} THEN "save"
    ELSE IF t = TaskValidateRcpt THEN "validate"
    ELSE "other"

\* if task == TaskSaveMail {...} else if task == TaskValidateRcpt {...} else {...}
Branch(t) ==
    IF t = TaskSaveMail THEN "save"
    ELSE IF t = TaskValidateRcpt THEN "validate"
    ELSE "other"

\* ---- Process, task == TaskSaveMail ---------------------------------------
\* hash := ""; if len(e.Hashes) > 0 { hash = e.Hashes[0] ... }
FirstHash(e) ==
    IF Len(e.Hashes) > 0 THEN e.Hashes[1] ELSE <<>>

\* a save task that leaves the queued id alone
SetQueuedId_Never(e) ==
    e

\* if len(e.Hashes) > 0 { ...; e.QueuedId = e.Hashes[0] }
SetQueuedId(e) ==
    IF Len(e.Hashes) > 0 THEN [e EXCEPT !.QueuedId = e.Hashes[1]] ELSE e

\* a loop that stops one recipient early
MoreRcpts_SkipsLast(i, e) ==
    i < Len(e.RcptTo)

\* for i := range e.RcptTo: is there a recipient i (counted from 1)
MoreRcpts(i, e) ==
    i <= Len(e.RcptTo)

\* a loop that goes on after a failed insert
SaveAborts_Never(err) ==
    FALSE

\* line 278: if err != nil { return ..., StorageError }
SaveAborts(err) ==
    err # "nil"

\* lines 200-219: the code before the loop over the recipients
ProcessSave(s) ==
    /\ CanCall(s)
    /\ Begin(s, "Process")
    /\ \E e \in Given, t \in Tasks :
          /\ Branch(t) = "save"
          /\ env'  = [env EXCEPT ![s] = SetQueuedId(e)]
          /\ hash' = [hash EXCEPT ![s] = FirstHash(e)]
          /\ task' = [task EXCEPT ![s] = t]
    /\ idx'   = [idx EXCEPT ![s] = 1]
    /\ pc'    = [pc EXCEPT ![s] = "save"]
    /\ stack' = [stack EXCEPT ![s] = <<"Process">>]
    /\ exit'  = [exit EXCEPT ![s] = "none"]
    /\ ret'   = [ret EXCEPT ![s] = NoResult]
    /\ fault' = [fault EXCEPT ![s] = NoFault]
    /\ forwards' = [forwards EXCEPT ![s] = <<>>]
    /\ rows'  = [rows EXCEPT ![s] = 0]

\* lines 198-219 again: the session hands the envelope of the save it has just
\* finished, as that save left it, to Process a second time
ProcessSaveAgain(s) ==
    /\ Serving
    /\ s \in active
    /\ pc[s] = "done"
    /\ entry[s] = "Process"
    /\ Branch(task[s]) = "save"
    /\ calls > 0
    /\ calls'   = calls - 1
    /\ prev'    = [prev EXCEPT ![s] = [k \in 1..Len(inserts[s]) |-> inserts[s][k].vals]]
    /\ inserts' = [inserts EXCEPT ![s] = <<>>]
    /\ stmt'    = [stmt EXCEPT ![s] = Nil]
    /\ env'     = [env EXCEPT ![s] = SetQueuedId(env[s])]
    /\ hash'    = [hash EXCEPT ![s] = FirstHash(env[s])]
    /\ idx'     = [idx EXCEPT ![s] = 1]
    /\ pc'      = [pc EXCEPT ![s] = "save"]
    /\ stack'   = [stack EXCEPT ![s] = <<"Process">>]
    /\ exit'    = [exit EXCEPT ![s] = "none"]
    /\ ret'     = [ret EXCEPT ![s] = NoResult]
    /\ fault'   = [fault EXCEPT ![s] = NoFault]
    /\ forwards' = [forwards EXCEPT ![s] = <<>>]
    /\ rows'    = [rows EXCEPT ![s] = 0]
    /\ UNCHANGED <<life, active, envs, shared, entry, task>>

\* lines 221-245 and 284: the head of the loop; the body up to
\* vals = []interface{}{}, or the call of the next processor after the loop
SaveLoop(s) ==
    /\ pc[s] = "save"
    /\ IF MoreRcpts(idx[s], env[s])
       THEN /\ vals' = ClearVals(vals)
            /\ pc'   = [pc EXCEPT ![s] = "head"]
            /\ UNCHANGED <<stack, forwards, exit, ret, fault>>
       ELSE /\ Forward(s, forwards[s], env[s], task[s])
            /\ UNCHANGED vals
    /\ UNCHANGED <<life, prev, active, envs, calls, cache, prepared, contacts, entry, task, env, idx,
                   hash, rows, stmt, inserts>>

\* lines 246-251: vals = append(vals, to, from, subject, body)
AppendHead(s) ==
    /\ pc[s] = "head"
    /\ vals' = vals \o HeadValues(env[s], idx[s])
    /\ pc'   = [pc EXCEPT ![s] = "mail"]
    /\ UNCHANGED <<life, prev, active, envs, calls, cache, prepared, contacts, entry, stack, task, env,
                   idx, hash, rows, stmt, inserts, forwards, exit, ret, fault>>

\* lines 252-262: vals = append(vals, ...), the `mail` column
AppendMail(s) ==
    /\ pc[s] = "mail"
    /\ vals' = Append(vals, MailField(env[s], BodyMode(env[s]), Compressor(env[s])))
    /\ pc'   = [pc EXCEPT ![s] = "tail"]
    /\ UNCHANGED <<life, prev, active, envs, calls, cache, prepared, contacts, entry, stack, task, env,
                   idx, hash, rows, stmt, inserts, forwards, exit, ret, fault>>

\* lines 264-276: vals = append(vals, hash, ..., sender), then the call of
\* prepareInsertQuery(1, db)
AppendTail(s) ==
    /\ pc[s] = "tail"
    /\ vals'  = vals \o TailValues(env[s], idx[s], hash[s])
    /\ rows'  = [rows EXCEPT ![s] = 1]
    /\ stack' = [stack EXCEPT ![s] = <<"Process", "prepareInsertQuery">>]
    /\ pc'    = [pc EXCEPT ![s] = "check"]
    /\ UNCHANGED <<life, prev, active, envs, calls, cache, prepared, contacts, entry, task, env, idx,
                   hash, stmt, inserts, forwards, exit, ret, fault>>

\* ---- Process, task == TaskValidateRcpt -----------------------------------
\* a validation that looks at the first recipient
RcptTooLong_First(e) ==
    /\ Len(e.RcptTo) > 0
    /\ StrLen(e.RcptTo[1].User) > UserLimit

\* len(e.RcptTo) > 0 and len(last.User) > 255, last the last recipient
RcptTooLong(e) ==
    /\ Len(e.RcptTo) > 0
    /\ StrLen(e.RcptTo[Len(e.RcptTo)].User) > UserLimit

\* lines 285-297
ProcessValidate(s) ==
    /\ CanCall(s)
    /\ Begin(s, "Process")
    /\ \E e \in Given, t \in Tasks :
          /\ Branch(t) = "validate"
          /\ env'  = [env EXCEPT ![s] = e]
          /\ task' = [task EXCEPT ![s] = t]
          /\ IF RcptTooLong(e)
             THEN /\ Return(s, RcptFailed)
                  /\ forwards' = [forwards EXCEPT ![s] = <<>>]
             ELSE Forward(s, <<>>, e, t)
    /\ idx'  = [idx EXCEPT ![s] = 0]
    /\ hash' = [hash EXCEPT ![s] = <<>>]
    /\ rows' = [rows EXCEPT ![s] = 0]

\* ---- Process, any other task ---------------------------------------------
\* lines 298-300
ProcessOther(s) ==
    /\ CanCall(s)
    /\ Begin(s, "Process")
    /\ \E e \in Given, t \in Tasks :
          /\ Branch(t) = "other"
          /\ env'  = [env EXCEPT ![s] = e]
          /\ task' = [task EXCEPT ![s] = t]
          /\ Forward(s, <<>>, e, t)
    /\ idx'  = [idx EXCEPT ![s] = 0]
    /\ hash' = [hash EXCEPT ![s] = <<>>]
    /\ rows' = [rows EXCEPT ![s] = 0]

\* ---- prepareInsertQuery and doQuery called on their own ------------------
PrepareCall(s) ==
    /\ CanCall(s)
    /\ Begin(s, "prepareInsertQuery")
    /\ \E n \in 0..MaxRows : rows' = [rows EXCEPT ![s] = n]
    /\ stack' = [stack EXCEPT ![s] = <<"prepareInsertQuery">>]
    /\ pc'    = [pc EXCEPT ![s] = "check"]
    /\ exit'  = [exit EXCEPT ![s] = "none"]
    /\ ret'   = [ret EXCEPT ![s] = NoResult]
    /\ fault' = [fault EXCEPT ![s] = NoFault]
    /\ forwards' = [forwards EXCEPT ![s] = <<>>]
    /\ task'  = [task EXCEPT ![s] = TaskTest]
    /\ env'   = [env EXCEPT ![s] = NoEnvelope]
    /\ idx'   = [idx EXCEPT ![s] = 0]
    /\ hash'  = [hash EXCEPT ![s] = <<>>]

\* line 135: doQuery starts with insertStmt = g.prepareInsertQuery(c, db)
DoQueryCall(s) ==
    /\ CanCall(s)
    /\ Begin(s, "doQuery")
    /\ \E c \in 0..MaxRows : rows' = [rows EXCEPT ![s] = c]
    /\ stack' = [stack EXCEPT ![s] = <<"doQuery", "prepareInsertQuery">>]
    /\ pc'    = [pc EXCEPT ![s] = "check"]
    /\ exit'  = [exit EXCEPT ![s] = "none"]
    /\ ret'   = [ret EXCEPT ![s] = NoResult]
    /\ fault' = [fault EXCEPT ![s] = NoFault]
    /\ forwards' = [forwards EXCEPT ![s] = <<>>]
    /\ task'  = [task EXCEPT ![s] = TaskTest]
    /\ env'   = [env EXCEPT ![s] = NoEnvelope]
    /\ idx'   = [idx EXCEPT ![s] = 0]
    /\ hash'  = [hash EXCEPT ![s] = <<>>]

\* ---- prepareInsertQuery --------------------------------------------------
\* prepareInsertQuery returns st to the frame below it
PrepReturn(s, st) ==
    /\ stmt' = [stmt EXCEPT ![s] = st]
    /\ IF Len(stack[s]) = 1
       THEN \* called on its own
            /\ Return(s, NoResult)
            /\ UNCHANGED rows
       ELSE IF stack[s][Len(stack[s]) - 1] = "Process"
       THEN \* line 276 returns; line 277 calls doQuery(1, db, stmt, &vals),
            \* which calls prepareInsertQuery(c, db) at line 135
            /\ stack' = [stack EXCEPT ![s] = <<"Process", "doQuery", "prepareInsertQuery">>]
            /\ rows'  = [rows EXCEPT ![s] = 1]
            /\ pc'    = [pc EXCEPT ![s] = "check"]
            /\ UNCHANGED <<exit, ret, fault>>
       ELSE \* line 135 returns into doQuery
            /\ stack' = [stack EXCEPT ![s] = SubSeq(@, 1, Len(@) - 1)]
            /\ pc'    = [pc EXCEPT ![s] = "exec"]
            /\ UNCHANGED <<rows, exit, ret, fault>>

\* a prepareInsertQuery that returns nil for no rows
ZeroRows_ReturnsNil(s) ==
    PrepReturn(s, Nil)

\* lines 91-93: if rows == 0 { panic("rows argument cannot be 0") }
ZeroRows(s) ==
    /\ Panic(s, "rows argument cannot be 0")
    /\ UNCHANGED <<rows, stmt>>

\* a lookup that never finds the statement
Cached_Never(c, n) ==
    FALSE

\* line 94: g.cache[rows-1] != nil
Cached(c, n) ==
    c[n] # Nil

\* lines 91-96
PrepCheck(s) ==
    /\ pc[s] = "check"
    /\ IF rows[s] = 0
       THEN ZeroRows(s)
       ELSE IF Cached(cache, rows[s])
       THEN PrepReturn(s, cache[rows[s]])
       ELSE /\ pc' = [pc EXCEPT ![s] = "compile"]
            /\ UNCHANGED <<stack, rows, stmt, exit, ret, fault>>
    /\ UNCHANGED <<life, prev, active, envs, calls, shared, entry, task, env, idx, hash, inserts, forwards>>

\* an error that is logged, after which lines 116-117 store and return the
\* nil statement
CompileFails_GoesOn(s) ==
    /\ stmt' = [stmt EXCEPT ![s] = Nil]
    /\ pc'   = [pc EXCEPT ![s] = "store"]
    /\ UNCHANGED <<stack, exit, ret, fault>>

\* lines 112-114: Log().WithError(sqlErr).Panic(...) leaves the function
CompileFails(s) ==
    /\ Panic(s, "failed while db.Prepare(INSERT...)")
    /\ UNCHANGED stmt

\* lines 97-114: the statement text and db.Prepare, which the store may refuse
PrepCompile(s) ==
    /\ pc[s] = "compile"
    /\ contacts' = [contacts EXCEPT ![rows[s]] = @ + 1]
    /\ \E ok \in BOOLEAN :
          IF ok
          THEN /\ prepared' = Append(prepared, InsertSql(rows[s]))
               /\ stmt' = [stmt EXCEPT ![s] = Len(prepared) + 1]
               /\ pc'   = [pc EXCEPT ![s] = "store"]
               /\ UNCHANGED <<stack, exit, ret, fault>>
          ELSE /\ CompileFails(s)
               /\ UNCHANGED prepared
    /\ UNCHANGED <<life, prev, active, envs, calls, cache, vals, entry, task, env, idx, hash, rows, inserts, forwards>>

\* lines 116-117
PrepStore(s) ==
    /\ pc[s] = "store"
    /\ cache' = [cache EXCEPT ![rows[s]] = stmt[s]]
    /\ PrepReturn(s, stmt[s])
    /\ UNCHANGED <<life, prev, active, envs, calls, prepared, contacts, vals, entry, task, env, idx, hash, inserts, forwards>>

\* ---- doQuery -------------------------------------------------------------
ExecOutcomes == {"ok", "err", "panic"}

\* the parameters the statement text has
ParamCount(sqlstr) == Cardinality({k \in 1..Len(sqlstr.values) : sqlstr.values[k] = "?"})

\* insertStmt.Exec(*vals...): a nil statement faults; arguments that are not
\* as many as the parameters are an error; else the store decides
ExecResults(st, v) ==
    IF st = Nil THEN {"panic"}
    ELSE IF Len(v) # ParamCount(prepared[st]) THEN {"err"}
    ELSE ExecOutcomes

\* lines 136-140, and lines 278-281 when Process called doQuery
Exec(s) ==
    /\ pc[s] = "exec"
    /\ \E out \in ExecResults(stmt[s], vals) :
          /\ inserts' = [inserts EXCEPT ![s] =
                            Append(@, [rcpt |-> idx[s], stmt |-> stmt[s], out |-> out,
                                       vals |-> vals])]
          /\ IF out = "panic"
             THEN /\ Panic(s, "fault in Exec")
                  /\ UNCHANGED idx
             ELSE IF Len(stack[s]) = 1
             THEN \* doQuery called on its own returns execErr
                  /\ Return(s, [result |-> "", err |-> IF out = "ok" THEN "nil" ELSE "execErr"])
                  /\ UNCHANGED idx
             ELSE IF SaveAborts(IF out = "ok" THEN "nil" ELSE "execErr")
             THEN /\ Return(s, SaveFailed)
                  /\ UNCHANGED idx
             ELSE /\ idx'   = [idx EXCEPT ![s] = @ + 1]
                  /\ stack' = [stack EXCEPT ![s] = <<"Process">>]
                  /\ pc'    = [pc EXCEPT ![s] = "save"]
                  /\ UNCHANGED <<exit, ret, fault>>
    /\ UNCHANGED <<life, prev, active, envs, calls, shared, entry, task, env, hash, rows, stmt, forwards>>

\* ---- the call is over ----------------------------------------------------
\* The caller has what the call returned; the locals of the call are gone and
\* the session is free to make its next call.
Leave(s) ==
    /\ pc[s] = "done"
    /\ calls > 0
    /\ pc'       = [pc EXCEPT ![s] = "idle"]
    /\ entry'    = [entry EXCEPT ![s] = "none"]
    /\ stack'    = [stack EXCEPT ![s] = <<>>]
    /\ task'     = [task EXCEPT ![s] = TaskTest]
    /\ env'      = [env EXCEPT ![s] = NoEnvelope]
    /\ idx'      = [idx EXCEPT ![s] = 0]
    /\ hash'     = [hash EXCEPT ![s] = <<>>]
    /\ rows'     = [rows EXCEPT ![s] = 0]
    /\ stmt'     = [stmt EXCEPT ![s] = Nil]
    /\ inserts'  = [inserts EXCEPT ![s] = <<>>]
    /\ forwards' = [forwards EXCEPT ![s] = <<>>]
    /\ exit'     = [exit EXCEPT ![s] = "none"]
    /\ ret'      = [ret EXCEPT ![s] = NoResult]
    /\ fault'    = [fault EXCEPT ![s] = NoFault]
    /\ prev'     = [prev EXCEPT ![s] = <<>>]
    /\ UNCHANGED <<life, active, envs, calls, shared>>

Next ==
    \/ Initialize
    \/ Shutdown
    \/ \E s \in Sessions :
        \/ Leave(s)
        \/ ProcessSave(s)
        \/ ProcessSaveAgain(s)
        \/ SaveLoop(s)
        \/ AppendHead(s)
        \/ AppendMail(s)
        \/ AppendTail(s)
        \/ ProcessValidate(s)
        \/ ProcessOther(s)
        \/ PrepareCall(s)
        \/ DoQueryCall(s)
        \/ PrepCheck(s)
        \/ PrepCompile(s)
        \/ PrepStore(s)
        \/ Exec(s)

Spec    == Init /\ [][Next]_vars
SpecSeq == InitSeq /\ [][Next]_vars
SpecRow == InitRow /\ [][Next]_vars

(***************************************************************************)
(* Properties                                                              *)
(***************************************************************************)
Done(s)     == pc[s] = "done"
InSave(s)   == entry[s] = "Process" /\ Branch(task[s]) = "save"
Rcpt(s)     == env[s].RcptTo
\* the value tuples of a statement text
Count(seq, tok) == Cardinality({k \in 1..Len(seq) : seq[k] = tok})
TupleCount(sql) == Count(sql.values, "(")
\* the statements the store compiled with n value tuples
StmtsFor(n) == {id \in 1..Len(prepared) : TupleCount(prepared[id]) = n}
AllOk(s)    == \A k \in 1..Len(inserts[s]) : inserts[s][k].out = "ok"

\* C1: whatever the interleaving of the sessions that call
\* prepareInsertQuery with the same number of rows n, at most one compiled
\* statement for n exists, and every call of prepareInsertQuery(n) that
\* returned, returned that statement.
C1_OneStatementPerSize ==
    \A n \in 1..MaxRows :
        /\ Cardinality(StmtsFor(n)) <= 1
        /\ \A s \in Sessions :
              (entry[s] = "prepareInsertQuery" /\ rows[s] = n /\ exit[s] = "returned")
                  => StmtsFor(n) = {stmt[s]}

\* C2: no panic raised while doQuery runs (by Exec or by the
\* prepareInsertQuery that doQuery calls) leaves doQuery: a doQuery that has
\* ended has returned an error value.
C2_DoQueryContainsFaults ==
    \A s \in Sessions :
        /\ "doQuery" \notin fault[s].past
        /\ (entry[s] = "doQuery" /\ Done(s)) => exit[s] = "returned"

\* C3: in a save task, once the insert for recipient i has returned an error
\* the call has returned "554 Error: could not save email" with StorageError,
\* that insert is the last insert of the task and the next processor has not
\* been called.
C3_AbortsOnInsertError ==
    \A s \in Sessions :
        InSave(s) =>
            \A k \in 1..Len(inserts[s]) :
                inserts[s][k].out = "err" =>
                    /\ k = Len(inserts[s])
                    /\ Done(s)
                    /\ exit[s] = "returned"
                    /\ ret[s] = [result |-> "554 Error: could not save email",
                                 err |-> "StorageError"]
                    /\ forwards[s] = <<>>

C3_Witness ==
    \E s \in Sessions :
        /\ InSave(s)
        /\ Len(Rcpt(s)) = 2
        /\ Len(inserts[s]) = 1
        /\ inserts[s][1].out = "err"
        /\ Done(s)

\* C4: in a save task the k-th insert is the insert for recipient k and runs
\* a statement of one row, and an insert is made only after every insert
\* before it has succeeded; the next processor is called only after the
\* inserts for all n recipients have succeeded, once; and a save task that
\* has ended with n successful inserts has called the next processor and
\* returned its answer.
C4_OneInsertPerRcptThenNext ==
    \A s \in Sessions :
        InSave(s) =>
            /\ Len(inserts[s]) <= Len(Rcpt(s))
            /\ \A k \in 1..Len(inserts[s]) :
                  /\ inserts[s][k].rcpt = k
                  /\ inserts[s][k].stmt \in StmtsFor(1)
                  /\ k < Len(inserts[s]) => inserts[s][k].out = "ok"
            /\ forwards[s] # <<>> =>
                  /\ Len(forwards[s]) = 1
                  /\ Len(inserts[s]) = Len(Rcpt(s))
                  /\ AllOk(s)
            /\ (Done(s) /\ Len(inserts[s]) = Len(Rcpt(s)) /\ AllOk(s)) =>
                  /\ exit[s] = "next"
                  /\ Len(forwards[s]) = 1
                  /\ ret[s] = forwards[s][1].answer

C4_Witness ==
    \E s \in Sessions :
        /\ InSave(s)
        /\ Len(Rcpt(s)) = 2
        /\ Len(inserts[s]) = 2
        /\ AllOk(s)
        /\ Len(forwards[s]) = 1
        /\ Done(s)

\* C5, as claimed: in a save task the queued id becomes the first hash only
\* after the inserts for all recipients have succeeded, and a save task that
\* ends in a storage failure leaves the queued id as it was.
C5_QueuedIdOnlyAfterInserts ==
    \A s \in Sessions :
        InSave(s) =>
            /\ env[s].QueuedId # InitialQueuedId =>
                  (Len(inserts[s]) = Len(Rcpt(s)) /\ AllOk(s))
            /\ ret[s].err = "StorageError" => env[s].QueuedId = InitialQueuedId

\* C5, amended: a save task sets the queued id to the first hash (when there
\* is one) before its first insert, so that from the start of the task to its
\* end, a storage failure included, the queued id is the first hash; with no
\* hash the queued id stays as it was.
C5_QueuedIdSetAtStart ==
    \A s \in Sessions :
        InSave(s) =>
            env[s].QueuedId = IF Len(env[s].Hashes) > 0 THEN env[s].Hashes[1]
                                                         ELSE InitialQueuedId

C5_Witness ==
    \E s \in Sessions :
        /\ InSave(s)
        /\ Done(s)
        /\ ret[s].err = "StorageError"
        /\ Len(env[s].Hashes) > 0
        /\ env[s].QueuedId = Hash1

\* C6: a call of the processor that has ended has called the next processor
\* or returned a (Result, error) pair: no panic leaves Process.
C6_NoFaultPastStage ==
    \A s \in Sessions :
        /\ "Process" \notin fault[s].past
        /\ (entry[s] = "Process" /\ Done(s)) => exit[s] \in {"next", "returned"}

\* C7: when the calls are made one after the other, a cached statement for n
\* has n value tuples and is the only statement compiled for n, a
\* prepareInsertQuery(n) that returned has returned the cached statement, and
\* once cache[n] is set no step changes it or sends the store another
\* statement for n to compile.
C7_Cache ==
    \A n \in 1..MaxRows :
        /\ cache[n] # Nil =>
              /\ cache[n] \in 1..Len(prepared)
              /\ TupleCount(prepared[cache[n]]) = n
              /\ StmtsFor(n) = {cache[n]}
        /\ \A s \in Sessions :
              (entry[s] = "prepareInsertQuery" /\ rows[s] = n /\ exit[s] = "returned")
                  => (stmt[s] # Nil /\ stmt[s] = cache[n])

C7_Stable ==
    \A n \in 1..MaxRows :
        cache[n] # Nil => (cache'[n] = cache[n] /\ contacts'[n] = contacts[n])

C7_CachedOnceAndForAll ==
    []C7_Cache /\ [][C7_Stable]_vars

\* a third call returns the statement of the first although another size was
\* prepared in between
C7_Witness ==
    \E s \in Sessions, n \in 1..MaxRows :
        /\ entry[s] = "prepareInsertQuery"
        /\ rows[s] = n
        /\ exit[s] = "returned"
        /\ calls = 0
        /\ stmt[s] = cache[n]
        /\ stmt[s] = 1
        /\ Len(prepared) = 2
        /\ contacts[n] = 1

\* C8: a validate-recipient task looks at the last recipient only: when its
\* local part is longer than 255 the call returns the canned failure with
\* NoSuchUser and the next processor is not called; otherwise (also with no
\* recipient) the next processor is called; no insert is made either way.
C8_ValidatesLastRcpt ==
    \A s \in Sessions :
        (entry[s] = "Process" /\ task[s] = TaskValidateRcpt) =>
            LET n == Len(Rcpt(s))
            IN  /\ Done(s)
                /\ inserts[s] = <<>>
                /\ IF n > 0 /\ StrLen(Rcpt(s)[n].User) > 255
                   THEN /\ exit[s] = "returned"
                        /\ ret[s] = [result |-> "response.Canned.FailRcptCmd",
                                     err |-> "NoSuchUser"]
                        /\ forwards[s] = <<>>
                   ELSE /\ exit[s] = "next"
                        /\ Len(forwards[s]) = 1
                        /\ ret[s] = forwards[s][1].answer

\* the last recipient is as long as allowed, the one before is too long
C8_Witness ==
    \E s \in Sessions :
        /\ entry[s] = "Process"
        /\ task[s] = TaskValidateRcpt
        /\ Len(Rcpt(s)) = 2
        /\ StrLen(Rcpt(s)[1].User) = 256
        /\ StrLen(Rcpt(s)[2].User) = 255
        /\ exit[s] = "next"

\* C9: a call with a task other than save and validate-recipient has called
\* the next processor once, with the envelope and the task it was given, and
\* returned its answer; it has made no insert, and the step that makes the
\* call leaves the statement cache and the store as they were.
C9_State ==
    \A s \in Sessions :
        (entry[s] = "Process" /\ task[s] \notin {TaskSaveMail, TaskValidateRcpt}) =>
            /\ Done(s)
            /\ exit[s] = "next"
            /\ Len(forwards[s]) = 1
            /\ forwards[s][1].env = env[s]
            /\ forwards[s][1].task = task[s]
            /\ ret[s] = forwards[s][1].answer
            /\ env[s] \in Given
            /\ inserts[s] = <<>>

C9_Step ==
    \A s \in Sessions :
        (/\ calls' = calls - 1
         /\ entry'[s] = "Process"
         /\ pc[s] = "idle"
         /\ pc'[s] = "done"
         /\ task'[s] \notin {TaskSaveMail, TaskValidateRcpt})
            => (cache' = cache /\ prepared' = prepared /\ contacts' = contacts)

C9_OtherTasksForwarded ==
    []C9_State /\ [][C9_Step]_vars

C9_Witness ==
    \E s \in Sessions :
        /\ entry[s] = "Process"
        /\ task[s] = TaskSaveMailStream
        /\ Len(Rcpt(s)) = 2
        /\ Len(env[s].Hashes) > 0
        /\ exit[s] = "next"
        /\ cache[1] # Nil

\* C10: prepareInsertQuery(0) ends with a panic, and the step in which it
\* does leaves the store and the statement cache as they were.
C10_State ==
    \A s \in Sessions :
        (entry[s] = "prepareInsertQuery" /\ rows[s] = 0) =>
            /\ pc[s] \in {"check", "done"}
            /\ Done(s) => (exit[s] = "panic" /\ "prepareInsertQuery" \in fault[s].past)
            /\ stmt[s] = Nil

C10_Step ==
    \A s \in Sessions :
        (pc[s] = "check" /\ rows[s] = 0 /\ pc'[s] # pc[s])
            => (cache' = cache /\ prepared' = prepared /\ contacts' = contacts)

C10_ZeroRowsFails ==
    []C10_State /\ [][C10_Step]_vars

C10_Witness ==
    \E s \in Sessions :
        /\ entry[s] = "prepareInsertQuery"
        /\ rows[s] = 0
        /\ Done(s)
        /\ exit[s] = "panic"
        /\ cache[1] # Nil

\* the parameters of one value tuple: the 17 columns less the date and the two
\* zeros the statement text writes itself
ParamsPerRow == 14

\* the Exec calls a save task has made
SaveInserts(s) == IF InSave(s) THEN inserts[s] ELSE <<>>

\* C11 as stated: a statement for N rows has 17*N parameters, and every insert
\* of a save task binds 17 values, as many as its statement has parameters.
C11_SeventeenParams ==
    /\ \A id \in 1..Len(prepared) :
          ParamCount(prepared[id]) = Len(Columns) * TupleCount(prepared[id])
    /\ \A s \in Sessions : \A k \in 1..Len(SaveInserts(s)) :
          /\ Len(SaveInserts(s)[k].vals) = Len(Columns)
          /\ Len(SaveInserts(s)[k].vals) = ParamCount(prepared[SaveInserts(s)[k].stmt])

\* C11, amended: a statement for N rows names 17 columns and has 14*N
\* parameters, and every insert of a save task binds 14 values, as many as its
\* statement has parameters.
C11_FourteenParams ==
    /\ \A id \in 1..Len(prepared) :
          /\ Len(prepared[id].columns) = 17
          /\ ParamCount(prepared[id]) = ParamsPerRow * TupleCount(prepared[id])
    /\ \A s \in Sessions : \A k \in 1..Len(SaveInserts(s)) :
          /\ Len(SaveInserts(s)[k].vals) = ParamsPerRow
          /\ Len(SaveInserts(s)[k].vals) = ParamCount(prepared[SaveInserts(s)[k].stmt])

\* a save task's insert went through after a statement for two rows was compiled
C11_Witness ==
    \E s \in Sessions :
        /\ Len(SaveInserts(s)) >= 1
        /\ SaveInserts(s)[1].out = "ok"
        /\ Len(SaveInserts(s)[1].vals) = ParamsPerRow
        /\ \E id \in 1..Len(prepared) : ParamCount(prepared[id]) = 2 * ParamsPerRow

\* the place of the ip_addr value among the values of a row
IpColumn == 9

\* C12: the ip_addr value of a row is 16 bytes wide when the text of the
\* address contains "::", at the start also, and 4 bytes wide for every other
\* address text.
C12_AddressWidth ==
    \A s \in Sessions : \A k \in 1..Len(SaveInserts(s)) :
        ParseIP(env[s].RemoteIP) # NilIP =>
            Len(SaveInserts(s)[k].vals[IpColumn]) =
                IF IndexColons(env[s].RemoteIP) >= 0 THEN 16 ELSE 4

\* the place of the message_id value among the values of a row
MessageIdColumn == 12

\* C13: the message_id value of a row is the first value of the Message-Id
\* header when the envelope has one, else hash.local-part@primary-host of the
\* row's recipient; either way it has 255 characters at most.
C13_MessageId ==
    \A s \in Sessions : \A k \in 1..Len(SaveInserts(s)) :
        LET mid == SaveInserts(s)[k].vals[MessageIdColumn]
            i   == SaveInserts(s)[k].rcpt
        IN  /\ mid = IF "Message-Id" \in DOMAIN env[s].Header
                     THEN env[s].Header["Message-Id"][1]
                     ELSE SynthMessageId(hash[s], env[s].RcptTo[i].User)
            /\ StrLen(mid) <= FieldLimit

\* the places of the values of a row, lines 246-274
ToColumn        == 1
FromColumn      == 2
SubjectColumn   == 3
BodyColumn      == 4
MailColumn      == 5
HashColumn      == 6
RecipientColumn == 8

\* the first limit characters of user@host
Shown(rcpt) ==
    LET a == At(rcpt.User, rcpt.Host)
    IN  IF StrLen(a) <= FieldLimit THEN a ELSE Take(a, FieldLimit)

\* a save task over two distinct recipients that has called the next processor
SavedTwo(s) ==
    /\ InSave(s)
    /\ exit[s] = "next"
    /\ Len(env[s].RcptTo) = 2
    /\ env[s].RcptTo[1] # env[s].RcptTo[2]

\* C14: a save task over two distinct recipients that went through has made
\* exactly two inserts, each with a statement of one value tuple; their from,
\* subject, hash and body values are equal; the recipient value of each is its
\* own recipient's user@host (cut at 255 characters); with neither a To nor a
\* Message-Id header the to value is that address too and the message_id is
\* hash.user@primary-host of its own recipient; with a To header that parses,
\* the to value of both is the header's address without its angle brackets
\* (cut at 255 characters), and with a To header that does not parse the to
\* value is the recipient's address again.
C14_TwoRows ==
    \A s \in Sessions :
        SavedTwo(s) =>
            /\ Len(inserts[s]) = 2
            /\ \A k \in 1..2 :
                  /\ inserts[s][k].rcpt = k
                  /\ TupleCount(prepared[inserts[s][k].stmt]) = 1
                  /\ \A col \in {FromColumn, SubjectColumn, HashColumn, BodyColumn} :
                        inserts[s][k].vals[col] = inserts[s][1].vals[col]
                  /\ inserts[s][k].vals[RecipientColumn] = Shown(env[s].RcptTo[k])
                  /\ DOMAIN env[s].Header \cap {"To", "Message-Id"} = {} =>
                        /\ inserts[s][k].vals[ToColumn] = Shown(env[s].RcptTo[k])
                        /\ inserts[s][k].vals[MessageIdColumn] =
                              Cat(Cat(FirstHash(env[s]), Str(".", 1)),
                                  At(env[s].RcptTo[k].User, PrimaryHost))
                  /\ ("To" \in DOMAIN env[s].Header
                        /\ ~NewAddress(env[s].Header["To"][1]).err) =>
                        inserts[s][k].vals[ToColumn] =
                            Shown(NewAddress(env[s].Header["To"][1]).addr)
                  /\ ("To" \in DOMAIN env[s].Header
                        /\ NewAddress(env[s].Header["To"][1]).err) =>
                        inserts[s][k].vals[ToColumn] = Shown(env[s].RcptTo[k])

\* two rows of the envelope without headers, each with its own recipient
C14_Witness ==
    \E s \in Sessions :
        /\ SavedTwo(s)
        /\ env[s].Header = <<>>
        /\ Len(inserts[s]) = 2
        /\ inserts[s][1].vals[ToColumn] = At(Str("u", 1), RcptHost)
        /\ inserts[s][2].vals[ToColumn] = At(Str("b", 3), RcptHost)
        /\ inserts[s][1].vals[MessageIdColumn] # inserts[s][2].vals[MessageIdColumn]

\* C15: in every row of a save task, with the marker of the external store
\* among the envelope's values the body value is "redis" and the mail value
\* is empty, with a compressor or without; else with a compressor the body
\* value is "gzip" and the mail value is the compressor's rendering; else the
\* body value is empty and the mail value is the rendered message.
C15_BodyAndMail ==
    \A s \in Sessions : \A k \in 1..Len(SaveInserts(s)) :
        LET v      == SaveInserts(s)[k].vals
            marked == "redis" \in DOMAIN env[s].Values
            packed == "zlib-compressor" \in DOMAIN env[s].Values
        IN  /\ marked =>
                  (v[BodyColumn] = "redis" /\ v[MailColumn] = <<>>)
            /\ (~marked /\ packed) =>
                  /\ v[BodyColumn] = "gzip"
                  /\ v[MailColumn] = CompressorString(env[s].Values["zlib-compressor"])
            /\ (~marked /\ ~packed) =>
                  /\ v[BodyColumn] = ""
                  /\ v[MailColumn] = Cat(env[s].DeliveryHeader, env[s].Data)

\* a row of an envelope that has the marker and a compressor
C15_Witness ==
    \E s \in Sessions :
        /\ Len(SaveInserts(s)) >= 1
        /\ DOMAIN env[s].Values = {"redis", "zlib-compressor"}
        /\ SaveInserts(s)[1].vals[BodyColumn] = "redis"
        /\ SaveInserts(s)[1].vals[MailColumn] = <<>>
        /\ SaveInserts(s)[1].out = "ok"

InitFailures == InitOutcomes \ {"nil"}

\* C16: an initializer that failed (at the configuration, at sql.Open or at
\* the probe of the table) has returned its error and left no handle in db; one
\* that succeeded has left the handle it opened. A shutdowner that ran after a
\* successful initializer has closed that handle; one that ran with no
\* successful initializer before it (none at all, or a failed one) has
\* returned nil and has changed neither db nor any handle.
C16_State ==
    /\ initRet \in InitFailures => db = Nil
    /\ initRet = "none" => db = Nil
    /\ initRet = "nil" => (db \in DOMAIN handles /\ db # Nil)
    /\ (shutRet # "none" /\ initRet = "nil") => handles[db] = "closed"
    /\ (shutRet # "none" /\ initRet # "nil") => shutRet = "nil"

C16_Step ==
    (shutRet = "none" /\ shutRet' # "none" /\ initRet # "nil") =>
        UNCHANGED <<db, handles>>

C16_ShutdownClosesOrNoOp ==
    []C16_State /\ [][C16_Step]_vars

\* the shutdowner closed the handle of a successful initializer after a save
C16_Witness ==
    /\ initRet = "nil"
    /\ shutRet = "nil"
    /\ handles = <<"closed">>
    /\ db = 1
    /\ calls < MaxCalls

\* C20: once connect has returned, every handle it opened is the handle it
\* returned or is closed; once the shutdowner has run, every handle connect
\* opened is closed.
C20_NoHandleLeftOpen ==
    /\ initRet # "none" =>
          \A h \in DOMAIN handles : (handles[h] = "closed" \/ db = h)
    /\ shutRet # "none" =>
          \A h \in DOMAIN handles : handles[h] = "closed"

\* the smaller of two numbers
Min(a, b) == IF a <= b THEN a ELSE b

\* C17: when a session that runs alone hands the envelope of a save task to
\* Process a second time, every insert of the second run binds the values the
\* insert for the same recipient bound in the first run, whatever the first
\* run and the calls before it left in vals, in the cache and in the
\* envelope's queued id.
C17_SameRowsAgain ==
    \A s \in Sessions :
        InSave(s) =>
            \A k \in 1..Min(Len(inserts[s]), Len(prev[s])) :
                inserts[s][k].vals = prev[s][k]

\* a second run over two recipients, with the queued id, the cache and vals
\* as the first run left them
C17_Witness ==
    \E s \in Sessions :
        /\ InSave(s)
        /\ Len(prev[s]) = 2
        /\ Len(inserts[s]) = 2
        /\ inserts[s][2].vals = prev[s][2]
        /\ inserts[s][1].vals # inserts[s][2].vals
        /\ env[s].QueuedId = Hash1
        /\ cache[1] # Nil

\* the values lines 246-274 derive for recipient i of the envelope of session s
OwnRow(s, i) ==
    HeadValues(env[s], i)
        \o <<MailField(env[s], BodyMode(env[s]), Compressor(env[s]))>>
        \o TailValues(env[s], i, hash[s])

\* C18: every insert of a save task binds the values derived from the
\* envelope and the recipient of the session that makes it, also when another
\* session runs a save task at the same time.
C18_BindsOwnRow ==
    \A s \in Sessions : \A k \in 1..Len(SaveInserts(s)) :
        SaveInserts(s)[k].vals = OwnRow(s, SaveInserts(s)[k].rcpt)

\* C19: the cache holds compiled statements only, each under the number of
\* its value tuples; the step at which the store refuses to compile a statement
\* ends the call of prepareInsertQuery with a panic and changes no entry of the
\* cache; an entry changes only when the call that compiled its statement stores
\* it; and a call for a size whose entry is empty goes on to compile.
C19_State ==
    \A n \in 1..MaxRows :
        cache[n] # Nil =>
            (cache[n] \in 1..Len(prepared) /\ TupleCount(prepared[cache[n]]) = n)

C19_Step ==
    /\ \A s \in Sessions :
          /\ (pc[s] = "compile" /\ pc'[s] # pc[s] /\ prepared' = prepared) =>
                /\ cache' = cache
                /\ exit'[s] = "panic"
                /\ "prepareInsertQuery" \in fault'[s].past
                /\ stmt'[s] = stmt[s]
          /\ (pc[s] = "check" /\ rows[s] >= 1 /\ cache[rows[s]] = Nil /\ pc'[s] # pc[s]) =>
                pc'[s] = "compile"
    /\ \A n \in 1..MaxRows :
          cache'[n] # cache[n] =>
              \E s \in Sessions :
                  /\ pc[s] = "store"
                  /\ rows[s] = n
                  /\ stmt[s] \in 1..Len(prepared)
                  /\ cache'[n] = stmt[s]

C19_CachedOnlyWhenCompiled ==
    []C19_State /\ [][C19_Step]_vars

\* the store refused the first statement for a size and compiled the second
C19_Witness ==
    \E s \in Sessions, n \in 1..MaxRows :
        /\ contacts[n] = 2
        /\ StmtsFor(n) = {cache[n]}
        /\ entry[s] = "prepareInsertQuery"
        /\ rows[s] = n
        /\ exit[s] = "returned"
        /\ stmt[s] = cache[n]

====
